---------------------------- MODULE Spec2Model ----------------------------
(***************************************************************************)
(* The cart page of type-safe-graphql-mocks-msw: the useCart hook          *)
(* (src/src/useCart.ts), the GetCartById query (src/src/GetCartById.ts),   *)
(* the Home page that consumes the hook (src/unnamed/part_000) and the     *)
(* services that answer its request: the two MSW mocks of the tests and    *)
(* the remote GraphQL service.                                             *)
(*                                                                         *)
(* One hook instance is followed from before its first render to after its *)
(* unmount.  A render of the consumer calls useCart(id) and ends without   *)
(* a fetch; the effect it registered runs after the commit, in a later     *)
(* step.  Every fetch is a promise chain                                   *)
(*   fetch(...) .then(res => res.json()) .then(({data}) => setCart(..))    *)
(* whose links run as separate steps, interleaved with renders and with    *)
(* the chains of other requests.                                           *)
(***************************************************************************)
EXTENDS Integers, Sequences, FiniteSets, TLC

(***************************************************************************)
(* Bounds of the model.                                                    *)
(***************************************************************************)
\* Renders of the consumer after the first one that are driven by its parent
\* (each passes an identifier, the same as before or another one).
MaxRenders == 2

(***************************************************************************)
(* JavaScript values.  Every value carries its type, so that values of     *)
(* different types can be compared.                                        *)
(***************************************************************************)
Undefined == [type |-> "undefined"]
Null == [type |-> "null"]
Num(n) == [type |-> "number", value |-> n]
Str(s) == [type |-> "string", value |-> s]
Arr(s) == [type |-> "array", items |-> s]
Obj(f) == [type |-> "object", fields |-> f]
\* The object {} : no fields.
EmptyObj == Obj([f \in {} |-> Undefined])

\* v is undefined or null: reading a property of it throws a TypeError.
IsNullish(v) == v.type \in {"undefined", "null"}

\* o.f for an object o: the field, undefined when o has no such field.
Get(o, f) == IF f \in DOMAIN o.fields THEN o.fields[f] ELSE Undefined

\* v?.f : undefined when v is undefined or null, v.f otherwise.
OptGet(v, f) == IF IsNullish(v) THEN Undefined ELSE Get(v, f)

(***************************************************************************)
(* The query document and the request.                                     *)
(***************************************************************************)
getCartById ==
    "query GetCartById($id: ID!) { cart(id: $id) { totalItems subTotal { amount formatted } items { id name quantity unitTotal { formatted } } } }"

Endpoint == "https://api.cartql.com"

\* The identifier the Home page passes, and another cart's identifier.
HomeId == "ck5r8d5b500003f5o2aif0v2b"
OtherId == "ck5r8d5b500003f5o2aif0v2c"
Ids == {HomeId, OtherId}

\* JSON.stringify({ query, variables }) with variables = { id }: the JSON text,
\* as the sequence of its tokens.
JSONstringify(query, i) ==
    << "{", "\"query\"", ":", "\"", query, "\"", ",",
       "\"variables\"", ":", "{", "\"id\"", ":", "\"", i, "\"", "}", "}" >>

\* What a server reads back from a request body of that form.
ParseBody(body) == [query |-> body[5], variables |-> [id |-> body[14]]]

\* The init argument of fetch.
FetchInit(body) ==
    [url |-> Endpoint, method |-> "POST",
     headers |-> [ContentType |-> "application/json"], body |-> body]

(***************************************************************************)
(* The services that answer the request.                                   *)
(***************************************************************************)
\* A response: its HTTP status and its body, which is JSON text (given by the
\* value it parses to) or text that is no JSON.
JsonBody(v) == [json |-> TRUE, value |-> v]
NotJsonBody == [json |-> FALSE, value |-> Undefined]
Response(status, body) == [status |-> status, body |-> body]
NoResponse == Response(0, NotJsonBody)

\* msw's ctx.data(d) inside res(...): status 200, body { "data": d }.
CtxData(d) == Response(200, JsonBody(Obj([data |-> d])))

\* The operation a GraphQL query text names, as msw's graphql.query reads it.
OperationName(query) == IF query = getCartById THEN "GetCartById" ELSE "anonymous"

\* The cart of the typed mock.
TypedCart ==
    Obj([totalItems |-> Num(10),
         subTotal |-> Obj([amount |-> Num(20000), formatted |-> Str("£200.00")]),
         items |-> Arr(<< Obj([id |-> Str("5e3293a3462051"),
                               name |-> Str("Full Logo Tee"),
                               quantity |-> Num(10),
                               unitTotal |-> Obj([formatted |-> Str("£20.00")])]) >>)])

\* The cart of the untyped mock.
UntypedCart == Obj([totalItems |-> Num(10)])

\* graphql.query<GetCartByIdQuery>("GetCartById", ...) of the typed test.
TypedMock(req) ==
    IF OperationName(ParseBody(req.body).query) = "GetCartById"
    THEN {CtxData(Obj([cart |-> TypedCart]))}
    ELSE {}

\* graphql.query("GetCartById", ...) of the untyped test.
UntypedMock(req) ==
    IF OperationName(ParseBody(req.body).query) = "GetCartById"
    THEN {CtxData(Obj([cart |-> UntypedCart]))}
    ELSE {}

\* The cart the remote service holds for an identifier.
RemoteCart(i) ==
    Obj([totalItems |-> Num(IF i = HomeId THEN 10 ELSE 3),
         subTotal |-> Obj([amount |-> Num(IF i = HomeId THEN 20000 ELSE 6000),
                           formatted |-> Str(IF i = HomeId THEN "£200.00" ELSE "£60.00")]),
         items |-> Arr(<< Obj([id |-> Str("5e3293a3462051"),
                               name |-> Str("Full Logo Tee"),
                               quantity |-> Num(IF i = HomeId THEN 10 ELSE 3),
                               unitTotal |-> Obj([formatted |-> Str("£20.00")])]) >>)])

\* What the remote service (an external collaborator) may answer: the cart of the
\* identifier asked for, no cart (null), a data object without a cart, a body
\* without data (errors only) and, under a non-2xx status, a body that is no
\* JSON or the cart.
RemoteService(req) ==
    LET i == ParseBody(req.body).variables.id
    IN  { CtxData(Obj([cart |-> RemoteCart(i)])),
          CtxData(Obj([cart |-> Null])),
          CtxData(EmptyObj),
          Response(200, JsonBody(Obj([errors |-> Arr(<< Str("cart lookup failed") >>)]))),
          Response(500, NotJsonBody),
          Response(500, JsonBody(Obj([data |-> Obj([cart |-> RemoteCart(i)])]))) }

Services == {"typedMock", "untypedMock", "remote"}

\* The responses a service may give to a request.
Answers(svc, req) ==
    CASE svc = "typedMock" -> TypedMock(req)
      [] svc = "untypedMock" -> UntypedMock(req)
      [] OTHER -> RemoteService(req)

(***************************************************************************)
(* The Home page.                                                          *)
(***************************************************************************)
\* What React puts in the DOM for a child {v}: a number or a string as text,
\* undefined and null as nothing.
ChildText(v) ==
    CASE v.type = "number" -> ToString(v.value)
      [] v.type = "string" -> v.value
      [] OTHER -> ""

\* <div>Total items: {cart?.totalItems}</div>
HomeText(c) == "Total items: " \o ChildText(OptGet(c, "totalItems"))

(***************************************************************************)
(* State.                                                                  *)
(***************************************************************************)
VARIABLES
    service,    \* the service answering the requests of this run
    consumer,   \* "Home" (always passes HomeId) or "caller" (passes any identifier)
    phase,      \* of the hook instance: "created", "mounted", "unmounted"
    id,         \* the identifier of the latest render ("" before the first)
    cart,       \* the state of useState() as of the latest render: what the hook
                \* returned
    pending,    \* the update setCart queued for the next render, if any
    deps,       \* the dependency array of the latest render (<< >> before the first)
    effect,     \* the effect callback of the latest render that React has still
                \* to invoke, if any: the body it closed over
    rendered,   \* the text of the page in the DOM ("" when there is no page)
    requests,   \* the fetch calls made, in order: their init arguments
    chain,      \* per request, where its promise chain stands
    resp,       \* per request, the response the service gave (NoResponse before)
    observed,   \* the identifiers passed by the parent's renders, in order
    lastHandled \* the latest response whose handler ran to its end (called
                \* setCart): the request and whether the instance was mounted

vars == << service, consumer, phase, id, cart, pending, deps, effect, rendered,
           requests, chain, resp, observed, lastHandled >>

\* No handler has run to its end yet.
NoneHandled == [req |-> 0, live |-> FALSE]

\* No update is queued; the update setCart(v) queues.
NoUpdate == [set |-> FALSE, value |-> Undefined]
Update(v) == [set |-> TRUE, value |-> v]

\* No effect callback waits; the callback of a render whose body is b waits.
NoEffect == [set |-> FALSE, body |-> << >>]
Effect(b) == [set |-> TRUE, body |-> b]

Init ==
    /\ service \in Services
    /\ consumer \in {"Home", "caller"}
    /\ phase = "created"
    /\ id = ""
    /\ cart = Undefined
    /\ pending = NoUpdate
    /\ deps = << >>
    /\ effect = NoEffect
    /\ rendered = ""
    /\ requests = << >>
    /\ chain = << >>
    /\ resp = << >>
    /\ observed = << >>
    /\ lastHandled = NoneHandled

(***************************************************************************)
(* useCart.                                                                *)
(***************************************************************************)
\* An effect with an empty dependency array: it runs after the first render only.
EffectFiresOnMountOnly(prev, next) == prev = << >>

\* An effect without a dependency array: it runs after every render.
EffectFiresEveryRender(prev, next) == TRUE

\* useEffect's comparison of the dependency array with the previous render's:
\* the effect runs on the first render and when some dependency changed.
EffectFires(prev, next) ==
    \/ prev = << >>
    \/ \E j \in 1..Len(next) : prev[j] # next[j]

\* The state a render sees: the queued update if there is one.
StateValue == IF pending.set THEN pending.value ELSE cart

\* The effect callback: fetch(url, init) with the body of its render starts a
\* promise chain.  React invokes the callback that waits, if one does, and
\* these are the calls made, their chains and their responses after that.
Flushed ==
    IF effect.set
    THEN [requests |-> Append(requests, FetchInit(effect.body)),
          chain |-> Append(chain, "fetching"),
          resp |-> Append(resp, NoResponse)]
    ELSE [requests |-> requests, chain |-> chain, resp |-> resp]

\* One call of useCart(i) by a render.  React first invokes the effect
\* callback of the render before, if it still waits.  Then useState() gives
\* the state with the queued update applied, useEffect registers the callback,
\* which React is to invoke after the commit when the dependencies changed,
\* and Home renders its text from the returned value.  The render itself makes
\* no fetch call.
UseCart(i) ==
    LET body == JSONstringify(getCartById, i)
        nextDeps == << body, "setCart" >>
    IN  /\ requests' = Flushed.requests
        /\ chain' = Flushed.chain
        /\ resp' = Flushed.resp
        /\ id' = i
        /\ cart' = StateValue
        /\ pending' = NoUpdate
        /\ deps' = nextDeps
        /\ effect' = IF EffectFires(deps, nextDeps) THEN Effect(body) ELSE NoEffect
        /\ rendered' = HomeText(cart')

\* The identifiers a consumer may pass.
Passes(i) == consumer = "Home" => i = HomeId

\* render(<Home />): the first render of the consumer.
Mount(i) ==
    /\ phase = "created"
    /\ Passes(i)
    /\ phase' = "mounted"
    /\ UseCart(i)
    /\ observed' = Append(observed, i)
    /\ UNCHANGED << service, consumer, lastHandled >>

\* A hook that clears its state when the identifier changes.
RerenderResettingCart(i) ==
    /\ phase = "mounted"
    /\ Len(observed) < 1 + MaxRenders
    /\ Passes(i)
    /\ requests' = Flushed.requests
    /\ chain' = Flushed.chain
    /\ resp' = Flushed.resp
    /\ id' = i
    /\ cart' = IF i # id THEN Undefined ELSE StateValue
    /\ pending' = NoUpdate
    /\ deps' = << JSONstringify(getCartById, i), "setCart" >>
    /\ effect' = IF EffectFires(deps, deps')
                 THEN Effect(JSONstringify(getCartById, i))
                 ELSE NoEffect
    /\ rendered' = HomeText(cart')
    /\ observed' = Append(observed, i)
    /\ UNCHANGED << service, consumer, phase, lastHandled >>

\* A later render driven by the parent, with the same or another identifier.
Rerender(i) ==
    /\ phase = "mounted"
    /\ Len(observed) < 1 + MaxRenders
    /\ Passes(i)
    /\ UseCart(i)
    /\ observed' = Append(observed, i)
    /\ UNCHANGED << service, consumer, phase, lastHandled >>

\* The render React schedules after setCart: a later task, with the same
\* identifier and the queued update applied.
RenderUpdate ==
    /\ phase = "mounted"
    /\ pending.set
    /\ UseCart(id)
    /\ UNCHANGED << service, consumer, phase, observed, lastHandled >>

\* React invokes the effect callback of the latest render, after the commit:
\* the fetch call.
RunEffect ==
    /\ phase = "mounted"
    /\ effect.set
    /\ requests' = Flushed.requests
    /\ chain' = Flushed.chain
    /\ resp' = Flushed.resp
    /\ effect' = NoEffect
    /\ UNCHANGED << service, consumer, phase, id, cart, pending, deps, rendered,
                    observed, lastHandled >>

\* An effect whose cleanup aborts the requests in flight when the consumer is
\* removed: their fetch rejects.
UnmountAborting ==
    /\ phase = "mounted"
    /\ phase' = "unmounted"
    /\ rendered' = ""
    /\ pending' = NoUpdate
    /\ requests' = Flushed.requests
    /\ chain' = [k \in DOMAIN Flushed.chain |->
                   IF Flushed.chain[k] = "fetching" THEN "rejected" ELSE Flushed.chain[k]]
    /\ resp' = Flushed.resp
    /\ effect' = NoEffect
    /\ UNCHANGED << service, consumer, id, cart, deps, observed, lastHandled >>

\* The consumer is removed from the page, and a queued update goes with it.
\* React first invokes the effect callback that still waits.  The effect
\* returned no cleanup: nothing is done to the requests in flight.
Unmount ==
    /\ phase = "mounted"
    /\ phase' = "unmounted"
    /\ rendered' = ""
    /\ pending' = NoUpdate
    /\ requests' = Flushed.requests
    /\ chain' = Flushed.chain
    /\ resp' = Flushed.resp
    /\ effect' = NoEffect
    /\ UNCHANGED << service, consumer, id, cart, deps, observed, lastHandled >>

(***************************************************************************)
(* The promise chain of request k.  Its links run in separate turns of the *)
(* event loop: fetch resolves when the headers are in ("response"), the    *)
(* first callback calls res.json() and returns ("reading"), the body       *)
(* arrives and json() settles ("json" or "rejected"), the second callback  *)
(* runs ("done" or "rejected").  Renders, the unmount and the links of     *)
(* other chains may run between any two of them.                           *)
(***************************************************************************)
\* The body of a response whose body has not been read.
UnreadBody == [json |-> FALSE, value |-> Null]

\* The service answers: fetch resolves with the response, whatever its status,
\* as soon as the headers are in.
Respond(k, r) ==
    /\ k \in 1..Len(requests)
    /\ chain[k] = "fetching"
    /\ r \in Answers(service, requests[k])
    /\ chain' = [chain EXCEPT ![k] = "response"]
    /\ resp' = [resp EXCEPT ![k] = Response(r.status, UnreadBody)]
    /\ UNCHANGED << service, consumer, phase, effect, id, cart, pending, deps,
                    rendered, requests, observed, lastHandled >>

\* A hook that fetches again when the connection fails.
FetchRejectRetrying(k) ==
    /\ k \in 1..Len(requests)
    /\ chain[k] = "fetching"
    /\ service = "remote"
    /\ requests' = Append(requests, requests[k])
    /\ chain' = Append([chain EXCEPT ![k] = "rejected"], "fetching")
    /\ resp' = Append(resp, NoResponse)
    /\ UNCHANGED << service, consumer, phase, effect, id, cart, pending, deps,
                    rendered, observed, lastHandled >>

\* The connection fails: fetch rejects, and nothing handles the rejection.
FetchReject(k) ==
    /\ k \in 1..Len(requests)
    /\ chain[k] = "fetching"
    /\ service = "remote"
    /\ chain' = [chain EXCEPT ![k] = "rejected"]
    /\ UNCHANGED << service, consumer, phase, effect, id, cart, pending, deps,
                    rendered, requests, resp, observed, lastHandled >>

\* .then((res) => res.json()): the first callback starts reading the body and
\* returns the promise of its JSON value.
ResJson(k) ==
    /\ k \in 1..Len(requests)
    /\ chain[k] = "response"
    /\ chain' = [chain EXCEPT ![k] = "reading"]
    /\ UNCHANGED << service, consumer, phase, effect, id, cart, pending, deps,
                    rendered, requests, resp, observed, lastHandled >>

\* res.json() rejects when the body is no JSON.
JsonRejects(r) == ~r.body.json

\* The body of the response arrives, the one of an answer of the service with
\* the status already received: json() resolves with the parsed value, or
\* rejects, and nothing handles the rejection.
BodyArrives(k, r) ==
    /\ k \in 1..Len(requests)
    /\ chain[k] = "reading"
    /\ r \in Answers(service, requests[k])
    /\ r.status = resp[k].status
    /\ resp' = [resp EXCEPT ![k] = r]
    /\ chain' = [chain EXCEPT ![k] = IF JsonRejects(r) THEN "rejected" ELSE "json"]
    /\ UNCHANGED << service, consumer, phase, effect, id, cart, pending, deps,
                    rendered, requests, observed, lastHandled >>

\* ({ data }) => ... data.cart throws when the parsed body has no data object.
HandlerThrows(parsed) ==
    \/ IsNullish(parsed)
    \/ IsNullish(Get(parsed, "data"))

\* A handler that reads cart beside data instead of inside it.
DataCartBesideData(parsed) == Get(parsed, "cart")

\* The argument of setCart: data.cart.
DataCart(parsed) == Get(Get(parsed, "data"), "cart")

\* A handler that stores the response of the latest request only.
SetCartHandlerLatestOnly(k) ==
    /\ k \in 1..Len(requests)
    /\ chain[k] = "json"
    /\ IF HandlerThrows(resp[k].body.value)
       THEN /\ chain' = [chain EXCEPT ![k] = "rejected"]
            /\ UNCHANGED << pending, lastHandled >>
       ELSE /\ chain' = [chain EXCEPT ![k] = "done"]
            /\ lastHandled' = [req |-> k, live |-> phase = "mounted"]
            /\ pending' = IF phase = "mounted" /\ k = Len(requests)
                          THEN Update(DataCart(resp[k].body.value))
                          ELSE pending
    /\ UNCHANGED << service, consumer, phase, effect, id, cart, deps, rendered,
                    requests, resp, observed >>

\* .then(({ data }) => { setCart(data.cart); }): the second callback.  It
\* throws, and the chain ends rejected with nothing handling the rejection, or
\* it calls setCart(data.cart): on a mounted instance React queues the update
\* and renders in a later task; on an unmounted one React drops the update.
SetCartHandler(k) ==
    /\ k \in 1..Len(requests)
    /\ chain[k] = "json"
    /\ IF HandlerThrows(resp[k].body.value)
       THEN /\ chain' = [chain EXCEPT ![k] = "rejected"]
            /\ UNCHANGED << pending, lastHandled >>
       ELSE /\ chain' = [chain EXCEPT ![k] = "done"]
            /\ lastHandled' = [req |-> k, live |-> phase = "mounted"]
            /\ pending' = IF phase = "mounted"
                          THEN Update(DataCart(resp[k].body.value))
                          ELSE pending
    /\ UNCHANGED << service, consumer, phase, effect, id, cart, deps, rendered,
                    requests, resp, observed >>

Next ==
    \/ \E i \in Ids : Mount(i)
    \/ \E i \in Ids : Rerender(i)
    \/ RenderUpdate
    \/ RunEffect
    \/ Unmount
    \/ \E k \in DOMAIN requests :
          chain[k] = "fetching" /\ \E r \in Answers(service, requests[k]) : Respond(k, r)
    \/ \E k \in DOMAIN requests : FetchReject(k)
    \/ \E k \in DOMAIN requests : ResJson(k)
    \/ \E k \in DOMAIN requests :
          chain[k] = "reading" /\ \E r \in Answers(service, requests[k]) : BodyArrives(k, r)
    \/ \E k \in DOMAIN requests : SetCartHandler(k)

Spec == Init /\ [][Next]_vars

(***************************************************************************)
(* The page stays mounted, every request in flight is eventually answered  *)
(* unless its connection fails, every callback of a settled promise        *)
(* eventually runs (the event loop runs its queued jobs) and React         *)
(* eventually runs the render it scheduled and invokes the effect callback *)
(* that waits.  The parent's renders are not forced: the parent may stop   *)
(* rendering at any time.                                                  *)
(***************************************************************************)
NextMounted ==
    \/ \E i \in Ids : Mount(i)
    \/ \E i \in Ids : Rerender(i)
    \/ RenderUpdate
    \/ RunEffect
    \/ \E k \in DOMAIN requests :
          chain[k] = "fetching" /\ \E r \in Answers(service, requests[k]) : Respond(k, r)
    \/ \E k \in DOMAIN requests : FetchReject(k)
    \/ \E k \in DOMAIN requests : ResJson(k)
    \/ \E k \in DOMAIN requests :
          chain[k] = "reading" /\ \E r \in Answers(service, requests[k]) : BodyArrives(k, r)
    \/ \E k \in DOMAIN requests : SetCartHandler(k)

Fairness ==
    /\ WF_vars(RenderUpdate)
    /\ WF_vars(RunEffect)
    /\ \A k \in 1..(1 + MaxRenders) :
          /\ WF_vars(k \in DOMAIN requests
                     /\ \E r \in Answers(service, requests[k]) : Respond(k, r))
          /\ WF_vars(ResJson(k))
          /\ WF_vars(k \in DOMAIN requests
                     /\ \E r \in Answers(service, requests[k]) : BodyArrives(k, r))
          /\ WF_vars(SetCartHandler(k))

FairSpec == Init /\ [][NextMounted]_vars /\ Fairness

\* The same with the Home page as the consumer.
HomeInit == Init /\ consumer = "Home"

HomeFairSpec == HomeInit /\ [][NextMounted]_vars /\ Fairness

(***************************************************************************)
(* Notions the properties use.                                             *)
(***************************************************************************)
Mocked == service \in {"typedMock", "untypedMock"}

\* The cart the mock of this run answers with.
MockCart == IF service = "typedMock" THEN TypedCart ELSE UntypedCart

\* All renders so far passed the identifier of the first one.
SameIdThroughout == \A j \in DOMAIN observed : observed[j] = observed[1]

\* The distinct identifiers the hook has seen.
DistinctIds == {observed[j] : j \in DOMAIN observed}

\* A sequence with every element dropped that repeats the one before it.
RECURSIVE Dedup(_)
Dedup(s) ==
    IF Len(s) <= 1
    THEN s
    ELSE LET front == Dedup(SubSeq(s, 1, Len(s) - 1))
         IN  IF s[Len(s)] = s[Len(s) - 1] THEN front ELSE Append(front, s[Len(s)])

\* The fetch calls of the hook: those made, followed by the one the effect
\* callback that waits is about to make.
Fetches == Flushed.requests

\* Fetch k is the POST the hook makes for identifier i.
IsCartRequest(k, i) ==
    /\ Fetches[k].url = Endpoint
    /\ Fetches[k].method = "POST"
    /\ Fetches[k].headers.ContentType = "application/json"
    /\ ParseBody(Fetches[k].body) = [query |-> getCartById, variables |-> [id |-> i]]

\* The identifier request k asked for.
IdOf(k) == ParseBody(requests[k].body).variables.id

\* The response to request k parsed as JSON.
Parsed(k) == resp[k].body.value

\* data.cart of the response to request k, absent when the body has no data or
\* data has no cart.
ReadDataCart(k) == OptGet(OptGet(Parsed(k), "data"), "cart")

\* Request k has had no response: it is in flight or its connection failed.
Unanswered(k) == chain[k] = "fetching" \/ (chain[k] = "rejected" /\ resp[k] = NoResponse)

\* o is an object with the fields fs.
HasFields(o, fs) == o.type = "object" /\ fs \subseteq DOMAIN o.fields

\* c has the shape the GetCartById query selects.
IsFullCart(c) ==
    /\ HasFields(c, {"totalItems", "subTotal", "items"})
    /\ c.fields.totalItems.type = "number"
    /\ HasFields(c.fields.subTotal, {"amount", "formatted"})
    /\ c.fields.items.type = "array"
    /\ \A j \in DOMAIN c.fields.items.items :
          /\ HasFields(c.fields.items.items[j], {"id", "name", "quantity", "unitTotal"})
          /\ HasFields(c.fields.items.items[j].fields.unitTotal, {"formatted"})

\* The handler of request k, the second callback, runs in this step.
Handles(k) == chain[k] = "json" /\ chain'[k] # "json"

(***************************************************************************)
(* C1.  Once the Home page is mounted and the service is a mock that       *)
(* answers GetCartById with a cart of totalItems 10, or the service,       *)
(* whichever it is, has answered with a JSON body whose data.cart has      *)
(* totalItems 10, the value of useCart eventually is the data.cart of that *)
(* response and the page shows "Total items: 10".                          *)
(***************************************************************************)
C1_MockedCartIsRendered ==
    (/\ consumer = "Home"
     /\ phase = "mounted"
     /\ \/ Mocked
        \/ /\ 1 \in DOMAIN chain
           /\ chain[1] = "json"
           /\ OptGet(ReadDataCart(1), "totalItems") = Num(10))
      ~> (/\ phase = "mounted"
          /\ 1 \in DOMAIN chain
          /\ chain[1] = "done"
          /\ cart = ReadDataCart(1)
          /\ Mocked => cart = MockCart
          /\ OptGet(cart, "totalItems") = Num(10)
          /\ rendered = "Total items: 10")

C1_Witness ==
    /\ consumer = "Home"
    /\ service = "typedMock"
    /\ phase = "mounted"
    /\ Len(requests) = 1
    /\ chain[1] = "done"
    /\ ~pending.set
    /\ cart = TypedCart
    /\ OptGet(cart, "totalItems") = Num(10)
    /\ rendered = "Total items: 10"

(***************************************************************************)
(* C2.  While every render passes the identifier of the first one, the     *)
(* hook has exactly one fetch, made or about to be made by the effect of   *)
(* the first render: the POST to the endpoint whose body carries the       *)
(* GetCartById query text and that identifier as variables.id.  No step    *)
(* that leaves the identifier of a mounted hook unchanged, the render      *)
(* caused by a stored response included, adds a fetch.                     *)
(***************************************************************************)
C2_OneRequestForOneId ==
    /\ []((phase # "created" /\ SameIdThroughout)
            => (Len(Fetches) = 1 /\ IsCartRequest(1, observed[1])))
    /\ [][(phase # "created" /\ id' = id) => Fetches' = Fetches]_vars

C2_Witness ==
    /\ consumer = "caller"
    /\ observed = << OtherId, OtherId, OtherId >>
    /\ lastHandled = [req |-> 1, live |-> TRUE]
    /\ ~pending.set
    /\ cart = RemoteCart(OtherId)
    /\ rendered = "Total items: 3"
    /\ ~effect.set
    /\ Len(requests) = 1
    /\ IsCartRequest(1, OtherId)

(***************************************************************************)
(* C3.  A render with another identifier than the render before adds       *)
(* exactly one fetch, for its effect to make, which carries the new        *)
(* identifier, and once the JSON body of the response to a request issued  *)
(* that way has arrived the value of the hook eventually is the data.cart  *)
(* of that response (absent when the response has none).                   *)
(***************************************************************************)
C3_NewIdFetchesAndUpdates ==
    /\ [][(phase = "mounted" /\ id' # id)
            => /\ Len(Fetches') = Len(Fetches) + 1
               /\ IsCartRequest(Len(Fetches), id)']_vars
    /\ \A k \in 2..(1 + MaxRenders) :
          (k \in DOMAIN chain /\ chain[k] = "json")
             ~> (k \in DOMAIN chain /\ chain[k] # "json" /\ cart = ReadDataCart(k))

(***************************************************************************)
(* C4.  As claimed: the hook has as many fetches, made or about to be made *)
(* by the effect of the latest render, as it has seen distinct             *)
(* identifiers.                                                            *)
(***************************************************************************)
C4_OneRequestPerDistinctId == Len(Fetches) = Cardinality(DistinctIds)

(***************************************************************************)
(* C4, amended.  The hook has one fetch, made or about to be made by the   *)
(* effect of the latest render, per render that passed another identifier  *)
(* than the render before it, the first render included: fetch k carries   *)
(* the k-th identifier of the sequence of identifiers with repetitions of  *)
(* the previous one dropped.                                               *)
(***************************************************************************)
C4_OneRequestPerIdChange ==
    /\ Len(Fetches) = Len(Dedup(observed))
    /\ \A k \in DOMAIN Fetches : IsCartRequest(k, Dedup(observed)[k])

C4_Witness ==
    /\ observed = << HomeId, OtherId, HomeId >>
    /\ Cardinality(DistinctIds) = 2
    /\ Len(requests) = 3
    /\ IdOf(3) = HomeId

(***************************************************************************)
(* C5.  Until a handler has stored a response the value of the hook is     *)
(* absent and the mounted page shows "Total items:" with no count.  Only   *)
(* a handler stores a value, the data.cart of its response, and the value  *)
(* of the hook changes only in the render that takes up the stored value:  *)
(* every other render, change of the identifier and new request leaves it  *)
(* as it was.                                                              *)
(***************************************************************************)
C5_CartChangesOnlyWhenStored ==
    /\ [](lastHandled = NoneHandled
            => /\ cart = Undefined
               /\ ~pending.set
               /\ phase = "mounted" => rendered = "Total items: ")
    /\ [][(pending'.set /\ pending' # pending)
            => \E k \in DOMAIN chain :
                  /\ Handles(k)
                  /\ chain'[k] = "done"
                  /\ pending' = Update(DataCart(Parsed(k)))]_vars
    /\ [][cart' # cart => (pending.set /\ cart' = pending.value)]_vars

C5_Witness ==
    /\ phase = "mounted"
    /\ Len(requests) = 2
    /\ chain[1] = "done"
    /\ chain[2] = "fetching"
    /\ id = OtherId
    /\ ~pending.set
    /\ cart = RemoteCart(HomeId)
    /\ rendered = "Total items: 10"

(***************************************************************************)
(* C6.  While the one request made for an identifier has had no response   *)
(* (it hangs, or its connection failed), whatever renders follow with that *)
(* identifier, the hook has made no second request and its value is        *)
(* absent.                                                                 *)
(***************************************************************************)
C6_NoRetryAndNoCart ==
    (/\ phase # "created"
     /\ SameIdThroughout
     /\ Len(requests) >= 1
     /\ Unanswered(1))
        => /\ Len(Fetches) = 1
           /\ cart = Undefined
           /\ ~pending.set
           /\ rendered \in {"Total items: ", ""}

C6_Witness ==
    /\ phase = "mounted"
    /\ observed = << HomeId, HomeId, HomeId >>
    /\ chain = << "rejected" >>
    /\ resp[1] = NoResponse
    /\ cart = Undefined

(***************************************************************************)
(* C7.  As claimed: when the handler of a JSON response without data.cart  *)
(* (data without cart, or no data at all) has run on a mounted instance,   *)
(* the value of the hook, the state its next render returns, is absent,    *)
(* whatever it was before.                                                 *)
(***************************************************************************)
C7_MalformedResponseClearsCart ==
    [][\A k \in DOMAIN chain :
          (phase = "mounted" /\ Handles(k) /\ ReadDataCart(k) = Undefined)
             => StateValue' = Undefined]_vars

(***************************************************************************)
(* C8.  As claimed: a failed connection and every link of the chain of a   *)
(* response with a non-2xx status leave the state of the hook, the value   *)
(* its next render returns, as it was.                                     *)
(***************************************************************************)
C8_NetworkFailureKeepsCart ==
    [][\A k \in DOMAIN chain :
          (\/ chain[k] = "fetching" /\ chain'[k] = "rejected"
           \/ /\ chain[k] # "fetching"
              /\ chain'[k] # chain[k]
              /\ resp'[k].status \notin 200..299)
             => StateValue' = StateValue]_vars

(***************************************************************************)
(* C9.  As claimed: the value of the hook is absent or a cart of the full  *)
(* shape the query selects.                                                *)
(***************************************************************************)
C9_CartAbsentOrFullyFormed == cart \in {Undefined, Null} \/ IsFullCart(cart)

(***************************************************************************)
(* C10.  No render, change of identifier or unmount touches a request in   *)
(* flight, and the state of a mounted hook, the value it returns from the  *)
(* render after the handler, is the data.cart of the response handled      *)
(* last, whichever request that response answers: a response to an earlier *)
(* identifier handled after the response to the current one stays the      *)
(* value.                                                                  *)
(***************************************************************************)
C10_LastHandledResponseWins ==
    /\ []((phase = "mounted" /\ lastHandled # NoneHandled)
            => StateValue = DataCart(Parsed(lastHandled.req)))
    /\ [][(id' # id \/ phase' # phase \/ observed' # observed \/ cart' # cart)
            => \A k \in DOMAIN chain : chain'[k] = chain[k] /\ requests'[k] = requests[k]]_vars

C10_Witness ==
    /\ phase = "mounted"
    /\ observed = << HomeId, OtherId, OtherId >>
    /\ Len(requests) = 2
    /\ IdOf(1) = HomeId
    /\ IdOf(2) = OtherId
    /\ chain = << "done", "done" >>
    /\ resp[2] = CtxData(Obj([cart |-> RemoteCart(OtherId)]))
    /\ lastHandled = [req |-> 1, live |-> TRUE]
    /\ id = OtherId
    /\ ~pending.set
    /\ cart = RemoteCart(HomeId)
    /\ rendered = "Total items: 10"

(***************************************************************************)
(* C11.  Unmounting leaves every request and every promise chain as it     *)
(* was, the fetch of an effect that still waited included: nothing is      *)
(* aborted.  On the unmounted instance every link of a chain can still     *)
(* run: a request in flight can be answered, the body of a response can be *)
(* read and arrive, and the handler can run; when the handler runs on a    *)
(* response that has a data object it calls setCart(data.cart) on the      *)
(* defunct instance (recorded with live FALSE), which stores nothing and   *)
(* renders nothing.                                                        *)
(***************************************************************************)
C11_HandlerRunsAfterUnmount ==
    /\ [][(phase = "mounted" /\ phase' = "unmounted")
            => /\ requests' = Flushed.requests
               /\ chain' = Flushed.chain
               /\ resp' = Flushed.resp]_vars
    /\ [](\A k \in DOMAIN chain :
            /\ (phase = "unmounted" /\ chain[k] = "fetching")
                 => ENABLED (\E r \in Answers(service, requests[k]) : Respond(k, r))
            /\ (phase = "unmounted" /\ chain[k] = "response")
                 => ENABLED ResJson(k)
            /\ (phase = "unmounted" /\ chain[k] = "reading")
                 => ENABLED (\E r \in Answers(service, requests[k]) : BodyArrives(k, r))
            /\ (phase = "unmounted" /\ chain[k] = "json")
                 => ENABLED SetCartHandler(k))
    /\ [][\A k \in DOMAIN chain :
            (/\ phase = "unmounted"
             /\ Handles(k)
             /\ ~HandlerThrows(Parsed(k)))
               => /\ chain'[k] = "done"
                  /\ lastHandled' = [req |-> k, live |-> FALSE]
                  /\ cart' = cart
                  /\ pending' = NoUpdate
                  /\ rendered' = ""]_vars

C11_Witness ==
    /\ phase = "unmounted"
    /\ Len(requests) = 2
    /\ chain = << "done", "fetching" >>
    /\ resp[1] = CtxData(Obj([cart |-> RemoteCart(IdOf(1))]))
    /\ lastHandled = [req |-> 1, live |-> FALSE]
    /\ cart = Undefined
    /\ ~pending.set
    /\ rendered = ""

====
